---- MODULE Spec2Model ----
(***************************************************************************)
(* A model of Gekr (src/src/gekr/Gekr.ts): the scanner parseBlock, the     *)
(* multi-stage rewrite engine processTokens with its validation sweep, the *)
(* built-in operations and the grammar compiler.                           *)
(*                                                                         *)
(* A document is a sequence of one-character strings.  A syntax-tree node  *)
(* is a record shaped like the interfaces of Gekr.Node.  A token sequence  *)
(* is a doubly linked list kept as an arena: list nodes are numbered 1..n, *)
(* 0 is null, and a deleted list node keeps its own prev/next pointers,    *)
(* which is what the engine's cursor walks on after a deletion.            *)
(***************************************************************************)
EXTENDS Integers, Sequences, FiniteSets, TLC

VARIABLES
    grammar,    \* the compiled Grammar handed to parse
    source,     \* the text of the module-level GenericParser: source.content
    index,      \* parser.index of the module-level GenericParser
    line,       \* the running line counter of parse
    errors,     \* the Diagnostic list of parse
    stack,      \* the active parseBlock calls, innermost last
    pc,         \* where the innermost call stands: scan, pass, sweep, done
    stage,      \* i of processTokens
    iter,       \* the cursor of processTokens (a list node, 0 = null)
    sweep0,     \* the token sequence and the diagnostic count when the sweep began
    result,     \* the value parse returns
    steps,      \* how many loop turns parse has made so far
    calls       \* the parse calls: the document of the running call, the calls
                \* suspended in a definition factory, what the first call returned

vars == <<grammar, source, index, line, errors, stack, pc, stage, iter, sweep0, result, steps,
          calls>>

(***************************************************************************)
(* Bounds of the model.                                                    *)
(***************************************************************************)
MaxDocLen == 3

(***************************************************************************)
(* Characters.                                                             *)
(***************************************************************************)
Null == [kind |-> "null"]

NoEmit == "<null>"

NL == "\n"

Digits == {"0", "1", "2", "3", "4", "5", "6", "7", "8", "9"}

Letters ==
    {"a", "b", "c", "d", "e", "f", "g", "h", "i", "j", "k", "l", "m", "n", "o",
     "p", "q", "r", "s", "t", "u", "v", "w", "x", "y", "z",
     "A", "B", "C", "D", "E", "F", "X", "Y", "Z"}

isWhitespace(v) == v = " " \/ v = "\t" \/ v = "\r"

isNumber(c) == c \in Digits

isWord(c) == c \in Letters \/ c \in Digits \/ c = "_"

isHex(c) == isNumber(c) \/ c \in {"a", "b", "c", "d", "e", "f", "A", "B", "C", "D", "E", "F"}

DigitValue(c) ==
    CASE c = "0" -> 0 [] c = "1" -> 1 [] c = "2" -> 2 [] c = "3" -> 3
      [] c = "4" -> 4 [] c = "5" -> 5 [] c = "6" -> 6 [] c = "7" -> 7
      [] c = "8" -> 8 [] c = "9" -> 9
      [] c \in {"a", "A"} -> 10 [] c \in {"b", "B"} -> 11 [] c \in {"c", "C"} -> 12
      [] c \in {"d", "D"} -> 13 [] c \in {"e", "E"} -> 14 [] c \in {"f", "F"} -> 15

RECURSIVE Str(_)
\* The string made of a sequence of characters.
Str(cs) == IF cs = <<>> THEN "" ELSE Head(cs) \o Str(Tail(cs))

RECURSIVE parseInt(_, _)
\* parseInt(src, radix) on a sequence of digits of that radix.
parseInt(src, radix) ==
    IF src = <<>> THEN 0
    ELSE parseInt(SubSeq(src, 1, Len(src) - 1), radix) * radix + DigitValue(src[Len(src)])

(***************************************************************************)
(* Positions, diagnostics and nodes.                                       *)
(***************************************************************************)
Position(ln, offset, length) == [line |-> ln, offset |-> offset, length |-> length]

Diagnostic(message, pos) == [message |-> message, pos |-> pos]

MsgUnexpectedToken == "Unexpected token, expected \",\""
MsgUnexpectedOperator == "Unexpected operator"
MsgUnexpectedComma == "Unexpected \",\", there is already a separator"
MsgUnexpectedCharacter == "Unexpected character"
MsgUnterminated(term) == "Unterminated block, expected \"" \o term \o "\""

Ident(name, pos) == [kind |-> "ident", name |-> name, pos |-> pos]
Number(value, pos) == [kind |-> "number", value |-> value, pos |-> pos]
OperatorNode(token, pos) == [kind |-> "operator", token |-> token, pos |-> pos]
Separator(strong, pos) == [kind |-> "separator", strong |-> strong, pos |-> pos]
LabelOperator(name, pos) == [kind |-> "label_op", name |-> name, pos |-> pos]
Label(label, target, pos) == [kind |-> "label", label |-> label, target |-> target, pos |-> pos]
Children(kind, children, pos) == [kind |-> kind, children |-> children, pos |-> pos]
StringNode(value, fullLine, pos) ==
    [kind |-> "string", value |-> value, fullLine |-> fullLine, pos |-> pos]
Format(strings, values, pos) ==
    [kind |-> "format", strings |-> strings, values |-> values, pos |-> pos]
InvocationNode(target, children, block, pos) ==
    [kind |-> "invocation", target |-> target, children |-> children, block |-> block, pos |-> pos]

isNodeTarget(node) ==
    node.kind # "operator" /\ node.kind # "separator" /\ node.kind # "label_op"

nodeHasChildren(node) == node.kind \in {"root", "block", "group", "tuple", "invocation"}

(***************************************************************************)
(* LinkedList<Node> (comTypes/LinkedList, used by Gekr.ts): an arena of    *)
(* list nodes with value, prev and next, and the list's start and end.     *)
(***************************************************************************)
LinkedList == [val |-> <<>>, prev |-> <<>>, next |-> <<>>, start |-> 0, end |-> 0]

push(L, v) ==
    LET n == Len(L.val) + 1 IN
    [val   |-> Append(L.val, v),
     prev  |-> Append(L.prev, L.end),
     next  |-> Append(IF L.end # 0 THEN [L.next EXCEPT ![L.end] = n] ELSE L.next, 0),
     start |-> IF L.end = 0 THEN n ELSE L.start,
     end   |-> n]

\* insert(at, value): a new list node right after `at`; the new node is Len(val).
insert(L, at, v) ==
    LET n  == Len(L.val) + 1
        an == L.next[at]
        p1 == Append(L.prev, at)
        p2 == IF an # 0 THEN [p1 EXCEPT ![an] = n] ELSE p1
        n1 == Append(L.next, an)
        n2 == [n1 EXCEPT ![at] = n]
    IN [val |-> Append(L.val, v), prev |-> p2, next |-> n2,
        start |-> L.start,
        end |-> IF L.end = at THEN n ELSE L.end]

inserted(L) == Len(L.val)

\* delete(node): unlinks the node from its neighbours; the node keeps its pointers.
delete(L, n) ==
    LET p  == L.prev[n]
        x  == L.next[n]
        n1 == IF p # 0 THEN [L.next EXCEPT ![p] = x] ELSE L.next
        p1 == IF x # 0 THEN [L.prev EXCEPT ![x] = p] ELSE L.prev
    IN [val |-> L.val, prev |-> p1, next |-> n1,
        start |-> IF L.start = n THEN x ELSE L.start,
        end |-> IF L.end = n THEN p ELSE L.end]

setValue(L, n, v) == [L EXCEPT !.val[n] = v]

RECURSIVE walk(_, _, _)
\* The list nodes met from n by next pointers, at most `fuel` of them.
walk(L, n, fuel) ==
    IF n = 0 \/ fuel = 0 THEN <<>> ELSE <<n>> \o walk(L, L.next[n], fuel - 1)

keys(L) == walk(L, L.start, Len(L.val) + 1)

\* A walk that needs more steps than there are list nodes never ends.
endless(L) == Len(keys(L)) > Len(L.val)

values(L) == [k \in 1..Len(keys(L)) |-> L.val[keys(L)[k]]]

(***************************************************************************)
(* Operations and the grammar compiler.                                    *)
(***************************************************************************)
Operator(token, binding, emit) ==
    [type |-> "Operator", token |-> token, binding |-> binding, emit |-> emit, presentence |-> -1]

Invocation(type, target) ==
    [type |-> "Invocation", nodeType |-> type, target |-> target, presentence |-> -1]

KeywordBinding == [type |-> "KeywordBinding", presentence |-> -1]

BlockBinding == [type |-> "BlockBinding", presentence |-> -1]

Labeling == [type |-> "Labeling", presentence |-> -1]

ARROW_OPERATOR == Operator(<<"=", ">">>, "infix", NoEmit)

getCustomOperators(operation) ==
    IF operation.type = "BlockBinding" THEN <<ARROW_OPERATOR>> ELSE <<>>

makeID(token, binding) ==
    CASE binding = "infix" -> "_" \o token \o "_"
      [] binding = "prefix" -> token \o "_"
      [] binding = "postfix" -> "_" \o token

getArithmeticOperators ==
    << << Operator(<<"-">>, "prefix", "neg") >>,
       << Operator(<<"*">>, "infix", "mul"), Operator(<<"/">>, "infix", "div") >>,
       << Operator(<<"+">>, "infix", "add"), Operator(<<"-">>, "infix", "sub") >> >>

getVariableOperators ==
    << << Operator(<<"=">>, "infix", "<int>assign") >> >>

getDefaultOperations ==
    << << Operator(<<".">>, "infix", "<int>access"),
          Invocation("group", NoEmit),
          Invocation("tuple", "index") >> >>
    \o getArithmeticOperators
    \o getVariableOperators
    \o << << Labeling >>, << KeywordBinding >>, << BlockBinding >> >>

RECURSIVE flatten(_)
flatten(seqs) == IF seqs = <<>> THEN <<>> ELSE Head(seqs) \o flatten(Tail(seqs))

RECURSIVE dedupe(_)
\* [...new Set(tokens)]: each token once, at its first occurrence.
dedupe(ts) ==
    IF ts = <<>> THEN <<>>
    ELSE LET init == dedupe(SubSeq(ts, 1, Len(ts) - 1))
             last == ts[Len(ts)]
         IN IF \E k \in 1..Len(init) : init[k] = last THEN init ELSE Append(init, last)

RECURSIVE byLength(_, _)
\* The stable sort by descending length: the tokens of length n, then the shorter ones.
byLength(ts, n) ==
    IF n = 0 THEN <<>>
    ELSE SelectSeq(ts, LAMBDA t : Len(t) = n) \o byLength(ts, n - 1)

sortLongestFirst(ts) ==
    LET longest == IF ts = <<>> THEN 0
                   ELSE CHOOSE n \in {Len(ts[k]) : k \in 1..Len(ts)} :
                            \A k \in 1..Len(ts) : Len(ts[k]) <= n
    IN byLength(ts, longest)

\* hasEmit of a lookup that registers every declared operator.
emitOrNull(operator) == TRUE

\* Which operators the lookup keeps: those with an emission rule.
hasEmit(operator) == operator.emit # NoEmit

\* A definition factory: the node it returns is an ident of its name; a nested
\* factory first parses a document of its own with the same grammar.
Factory(name, nested, content) == [name |-> name, nested |-> nested, content |-> content]

define(factory, p) == Ident(factory.name, p)

\* new Grammar({ operations, definitions }).
newGrammar(operations, definitions) ==
    LET stamped == [i \in 1..Len(operations) |->
                        [k \in 1..Len(operations[i]) |->
                            [operations[i][k] EXCEPT !.presentence = i - 1]]]
        passes == [i \in 1..Len(operations) |->
                        SelectSeq(stamped[i], LAMBDA o : o.type # "Operator")]
        operatorsList ==
            flatten([i \in 1..Len(operations) |->
                flatten([k \in 1..Len(operations[i]) |->
                    IF stamped[i][k].type = "Operator" THEN <<stamped[i][k]>>
                    ELSE getCustomOperators(stamped[i][k])])])
        emitting == SelectSeq(operatorsList, hasEmit)
        ids == {makeID(Str(emitting[k].token), emitting[k].binding) : k \in 1..Len(emitting)}
    IN [passes |-> passes,
        operatorsList |-> operatorsList,
        definedTokens |->
            sortLongestFirst(dedupe([k \in 1..Len(operatorsList) |-> operatorsList[k].token]
                                    \o [k \in 1..Len(definitions) |-> definitions[k][1]])),
        definitionLookup |->
            [token \in {Str(definitions[k][1]) : k \in 1..Len(definitions)} |->
                LET last == CHOOSE k \in 1..Len(definitions) :
                        /\ Str(definitions[k][1]) = token
                        /\ \A j \in (k + 1)..Len(definitions) : Str(definitions[j][1]) # token
                IN definitions[last][2]],
        operatorLookup |->
            [id \in ids |->
                LET last == CHOOSE k \in 1..Len(emitting) :
                        /\ makeID(Str(emitting[k].token), emitting[k].binding) = id
                        /\ \A j \in (k + 1)..Len(emitting) :
                               makeID(Str(emitting[j].token), emitting[j].binding) # id
                IN emitting[last]]]

\* new Grammar({ operations }).
Grammar(operations) == newGrammar(operations, <<>>)

definitionLookupGet(g, token) ==
    IF token \in DOMAIN g.definitionLookup THEN g.definitionLookup[token] ELSE Null

operatorLookupGet(g, id) ==
    IF id \in DOMAIN g.operatorLookup THEN g.operatorLookup[id] ELSE Null

(***************************************************************************)
(* The built-in operations' invoke(tokens, iter, errors).  Each yields the *)
(* token list as the call leaves it and the list node it returns (0: null).*)
(***************************************************************************)
Outcome(L, ret) == [tokens |-> L, ret |-> ret]

\* Operator.invoke
OperatorInvoke(L, it) == Outcome(L, 0)

\* Invocation.invoke without tokens.delete(iter.prev).
InvocationKeepsOperand(op, L, it) ==
    LET token == L.val[it] IN
    IF /\ token.kind = op.nodeType
       /\ L.prev[it] # 0
       /\ isNodeTarget(L.val[L.prev[it]])
    THEN LET target == L.val[L.prev[it]]
             node == IF op.target = NoEmit
                     THEN InvocationNode(target, token.children, Null, target.pos)
                     ELSE InvocationNode(Ident(op.target, token.pos),
                                         <<target>> \o token.children, Null, token.pos)
             L1 == insert(L, it, node)
         IN Outcome(delete(L1, it), 0)
    ELSE Outcome(L, 0)

\* Invocation.invoke
InvocationInvoke(op, L, it) ==
    LET token == L.val[it] IN
    IF /\ token.kind = op.nodeType
       /\ L.prev[it] # 0
       /\ isNodeTarget(L.val[L.prev[it]])
    THEN LET target == L.val[L.prev[it]]
             node == IF op.target = NoEmit
                     THEN InvocationNode(target, token.children, Null, target.pos)
                     ELSE InvocationNode(Ident(op.target, token.pos),
                                         <<target>> \o token.children, Null, token.pos)
             L1 == insert(L, it, node)
             L2 == delete(L1, L1.prev[it])
             L3 == delete(L2, it)
         IN Outcome(L3, 0)
    ELSE Outcome(L, 0)

\* keywordArgument that does not stop before a block.
keywordArgumentOrBlock(v) ==
    (v.kind = "separator" /\ v.strong) \/ isNodeTarget(v)

\* The condition of KeywordBinding's argument loop.
keywordArgument(v) ==
    /\ (v.kind = "separator" /\ v.strong) \/ isNodeTarget(v)
    /\ v.kind # "block"

RECURSIVE keywordCollect(_, _, _, _)
\* KeywordBinding's for loop from `end`: the list and the children when the loop
\* ends, or declined when the first sibling is a separator.
keywordCollect(L, end, first, children) ==
    IF end # 0 /\ keywordArgument(L.val[end])
    THEN IF L.val[end].kind # "separator"
         THEN keywordCollect(delete(L, end), L.next[end], FALSE, Append(children, L.val[end]))
         ELSE IF first
              THEN [tokens |-> L, children |-> children, declined |-> TRUE]
              ELSE keywordCollect(delete(L, end), L.next[end], FALSE, children)
    ELSE [tokens |-> L, children |-> children, declined |-> FALSE]

\* KeywordBinding.invoke
KeywordBindingInvoke(L, it) ==
    LET token == L.val[it] IN
    IF token.kind = "ident"
    THEN LET c == keywordCollect(L, L.next[it], TRUE, <<>>) IN
         IF c.declined THEN Outcome(c.tokens, 0)
         ELSE IF Len(c.children) = 0 THEN Outcome(c.tokens, 0)
         ELSE LET L1 == insert(c.tokens, it, InvocationNode(token, c.children, Null, token.pos))
                  res == inserted(L1)
              IN Outcome(delete(L1, it), res)
    ELSE Outcome(L, 0)

\* isArrowToken of a BlockBinding that binds blocks only.
arrowNever(specToken) == FALSE

\* Which token after the cursor BlockBinding takes for the arrow.
isArrowToken(specToken) == specToken.kind = "operator"

\* BlockBinding.invoke
BlockBindingInvoke(L, it) ==
    LET token == L.val[it] IN
    IF ~( \/ (token.kind = "invocation" /\ token.block = Null)
          \/ token.kind = "ident"
          \/ token.kind = "group" )
    THEN Outcome(L, 0)
    ELSE IF L.next[it] = 0 THEN Outcome(L, 0)
    ELSE LET specToken == L.val[L.next[it]] IN
         IF specToken.kind # "block" /\ ~isArrowToken(specToken) THEN Outcome(L, 0)
         ELSE IF specToken.kind # "block" /\ L.next[L.next[it]] = 0 THEN Outcome(L, 0)
         ELSE
           LET block == IF specToken.kind = "block" THEN L.next[it] ELSE L.next[L.next[it]]
               toDelete == IF specToken.kind = "block" THEN <<block>> ELSE <<L.next[it], block>>
               L1 == IF token.kind = "ident"
                     THEN delete(insert(L, it,
                              InvocationNode(token, <<>>, L.val[block], token.pos)), it)
                     ELSE IF token.kind = "group"
                     THEN delete(insert(L, it,
                              InvocationNode(Ident("<int>arrow", token.pos), token.children,
                                             L.val[block], token.pos)), it)
                     ELSE setValue(L, it, [token EXCEPT !.block = L.val[block]])
               L2 == IF Len(toDelete) = 1 THEN delete(L1, toDelete[1])
                     ELSE delete(delete(L1, toDelete[1]), toDelete[2])
           IN Outcome(L2, L2.next[it])

\* Which token Labeling binds as a label's target.
isLabelTarget(v) == isNodeTarget(v) /\ v.kind # "label"

\* Labeling.invoke
LabelingInvoke(L, it) ==
    LET token == L.val[it] IN
    IF /\ token.kind = "label_op"
       /\ L.next[it] # 0
       /\ isLabelTarget(L.val[L.next[it]])
    THEN LET target == L.val[L.next[it]]
             L1 == delete(L, L.next[it])
             L2 == insert(L1, it, Label(token.name, target, token.pos))
             labelNode == inserted(L2)
         IN Outcome(delete(L2, it), labelNode)
    ELSE Outcome(L, 0)

invoke(op, L, it) ==
    CASE op.type = "Operator" -> OperatorInvoke(L, it)
      [] op.type = "Invocation" -> InvocationInvoke(op, L, it)
      [] op.type = "KeywordBinding" -> KeywordBindingInvoke(L, it)
      [] op.type = "BlockBinding" -> BlockBindingInvoke(L, it)
      [] op.type = "Labeling" -> LabelingInvoke(L, it)

\* dispatch without iter = iter.next when no operation returns a list node.
RECURSIVE dispatchStays(_, _, _, _)
dispatchStays(pass, k, L, it) ==
    IF k > Len(pass) THEN Outcome(L, it)
    ELSE LET o == invoke(pass[k], L, it) IN
         IF o.ret # 0 THEN o ELSE dispatchStays(pass, k + 1, o.tokens, it)

RECURSIVE dispatch(_, _, _, _)
\* processTokens' loop over the operations of a pass, from the k-th on: the first
\* that returns a list node moves the cursor there; otherwise the cursor goes to
\* iter.next.
dispatch(pass, k, L, it) ==
    IF k > Len(pass) THEN Outcome(L, L.next[it])
    ELSE LET o == invoke(pass[k], L, it) IN
         IF o.ret # 0 THEN o ELSE dispatch(pass, k + 1, o.tokens, it)

(***************************************************************************)
(* processTokens: the operator-resolution step.                            *)
(***************************************************************************)
isWeakSeparator(v) == v.kind = "separator" /\ v.strong = FALSE

targetPrev(L, it) ==
    /\ L.prev[it] # 0
    /\ \/ isNodeTarget(L.val[L.prev[it]])
       \/ /\ isWeakSeparator(L.val[L.prev[it]])
          /\ L.prev[L.prev[it]] # 0
          /\ isNodeTarget(L.val[L.prev[L.prev[it]]])

targetNext(L, it) ==
    /\ L.next[it] # 0
    /\ \/ isNodeTarget(L.val[L.next[it]])
       \/ /\ isWeakSeparator(L.val[L.next[it]])
          /\ L.next[L.next[it]] # 0
          /\ isNodeTarget(L.val[L.next[L.next[it]]])

\* fixity without the test of the previous token when the next one is an operand.
fixityByNext(L, it) ==
    IF targetNext(L, it) THEN "prefix"
    ELSE IF targetPrev(L, it) THEN "postfix"
    ELSE "none"

\* The binding chosen from the neighbours; "none" when neither is an operand.
fixity(L, it) ==
    IF targetNext(L, it) /\ targetPrev(L, it) THEN "infix"
    ELSE IF targetNext(L, it) THEN "prefix"
    ELSE IF targetPrev(L, it) THEN "postfix"
    ELSE "none"

\* ownsStage without the comparison of the presentence with the stage.
anyStage(operator, i) == TRUE

\* The stage at which the engine honours a looked-up operator.
ownsStage(operator, i) == operator.presentence = i

\* The grammar's operator for the token under the cursor in stage i, or Null.
resolving(g, L, it, i) ==
    LET binding == fixity(L, it) IN
    IF binding = "none" THEN Null
    ELSE LET operator == operatorLookupGet(g, makeID(L.val[it].token, binding)) IN
         IF operator = Null \/ ~ownsStage(operator, i) THEN Null ELSE operator

consumePrefix(L, it) ==
    LET t0 == L.next[it]
        sep == L.val[t0].kind = "separator"
        L1 == IF sep THEN delete(L, t0) ELSE L
        target == IF sep THEN L1.next[t0] ELSE t0
        L2 == delete(L1, L1.next[it])
    IN [tokens |-> L2, next |-> L2.next[it], children |-> <<L2.val[target]>>]

\* consumeInfix with the cursor one token too far.
consumeInfixSkips(L, it) ==
    LET a0 == L.prev[it]
        sepA == L.val[a0].kind = "separator"
        L1 == IF sepA THEN delete(L, a0) ELSE L
        targetA == IF sepA THEN L1.prev[a0] ELSE a0
        L2 == delete(L1, L1.prev[it])
        b0 == L2.next[it]
        sepB == L2.val[b0].kind = "separator"
        L3 == IF sepB THEN delete(L2, b0) ELSE L2
        targetB == IF sepB THEN L3.next[b0] ELSE b0
        L4 == delete(L3, L3.next[it])
    IN [tokens |-> L4,
        next |-> IF L4.next[it] = 0 THEN 0 ELSE L4.next[L4.next[it]],
        children |-> <<L4.val[targetA], L4.val[targetB]>>]

consumeInfix(L, it) ==
    LET a0 == L.prev[it]
        sepA == L.val[a0].kind = "separator"
        L1 == IF sepA THEN delete(L, a0) ELSE L
        targetA == IF sepA THEN L1.prev[a0] ELSE a0
        L2 == delete(L1, L1.prev[it])
        b0 == L2.next[it]
        sepB == L2.val[b0].kind = "separator"
        L3 == IF sepB THEN delete(L2, b0) ELSE L2
        targetB == IF sepB THEN L3.next[b0] ELSE b0
        L4 == delete(L3, L3.next[it])
    IN [tokens |-> L4, next |-> L4.next[it],
        children |-> <<L4.val[targetA], L4.val[targetB]>>]

consumePostfix(L, it) ==
    LET t0 == L.prev[it]
        sep == L.val[t0].kind = "separator"
        L1 == IF sep THEN delete(L, t0) ELSE L
        target == IF sep THEN L1.prev[t0] ELSE t0
        L2 == delete(L1, L1.prev[it])
    IN [tokens |-> L2, next |-> it, children |-> <<L2.val[target]>>]

consume(L, it, binding) ==
    CASE binding = "prefix" -> consumePrefix(L, it)
      [] binding = "infix" -> consumeInfix(L, it)
      [] binding = "postfix" -> consumePostfix(L, it)

\* The node the engine inserts for a resolved operator whose emit is a name.
emitNode(operator, children, token) ==
    InvocationNode(Ident(operator.emit, token.pos), children, Null, token.pos)

\* One resolution: operands consumed, the emitted node inserted after the cursor,
\* the operator token deleted, the cursor moved to `next`.
resolve(L, it, operator) ==
    LET c == consume(L, it, operator.binding)
        L1 == insert(c.tokens, it, emitNode(operator, c.children, L.val[it]))
    IN Outcome(delete(L1, it), c.next)

(***************************************************************************)
(* processTokens: the validation sweep, one token of tokens.keys().        *)
(***************************************************************************)
\* needsSeparator without the exemption of an invocation that has a block.
separatorAlways(token) == TRUE

\* Whether the sweep asks for a separator between token and the next token.
needsSeparator(token) == ~(token.kind = "invocation" /\ token.block # Null)

\* Whether the sweep stops at this token before looking at it any further.
sweepBreaks(L, it) == L.val[it].kind # "separator" /\ L.next[it] = 0

sweepToken(L, it, errs) ==
    LET token == L.val[it]
        L1 == IF L.prev[it] = 0 /\ token.kind = "separator" THEN delete(L, it) ELSE L
    IN
    IF sweepBreaks(L1, it) THEN [tokens |-> L1, errors |-> errs, brk |-> TRUE]
    ELSE
      LET nx == L1.next[it]
          L2 == IF token.kind # "separator" /\ L1.val[nx].kind = "separator"
                THEN delete(L1, nx) ELSE L1
          e1 == IF /\ token.kind # "separator"
                   /\ L1.val[nx].kind # "separator"
                   /\ needsSeparator(token)
                THEN Append(errs, Diagnostic(MsgUnexpectedToken, L1.val[nx].pos))
                ELSE errs
          e2 == IF token.kind = "operator"
                THEN Append(e1, Diagnostic(MsgUnexpectedOperator, token.pos))
                ELSE e1
      IN [tokens |-> L2, errors |-> e2, brk |-> FALSE]

(***************************************************************************)
(* The scanner: GenericParser over source.content, and parseBlock.         *)
(***************************************************************************)
lineOffset == 0

NoTerm == "<null>"

\* One activation of parseBlock(term), with its tokens; or one quoted string being
\* read (kind "string"), with the locals of that branch: template, value, strings
\* and values.
Frame(term, kind, pos) ==
    [term |-> term, kind |-> kind, pos |-> pos, tokens |-> LinkedList,
     template |-> FALSE, value |-> "", strings |-> <<>>, values |-> <<>>]

top == stack[Len(stack)]

tokens == top.tokens

withTokens(L) == [stack EXCEPT ![Len(stack)].tokens = L]

\* parser.isDone() at index i
isDone(i) == i >= Len(source)

\* parser.getCurrent() at index i; "" stands for undefined past the end
getCurrent(i) == IF i < Len(source) THEN source[i + 1] ELSE ""

\* str.startsWith(token, i)
startsWith(token, i) ==
    \A k \in 1..Len(token) : i + k <= Len(source) /\ source[i + k] = token[k]

RECURSIVE readUntil(_, _)
\* parser.readUntil(predicate) from index i: the index where it stops; stops is
\* the set of the indices at which the predicate holds.
readUntil(stops, i) ==
    IF isDone(i) \/ i \in stops THEN i ELSE readUntil(stops, i + 1)

\* The indices of the input.
indices == 0..Len(source)

\* The first of grammar.definedTokens that parser.consume accepts at i, or <<>>.
definedTokenAt(i) ==
    LET hits == {k \in 1..Len(grammar.definedTokens) : startsWith(grammar.definedTokens[k], i)}
    IN IF hits = {} THEN <<>>
       ELSE grammar.definedTokens[CHOOSE k \in hits : \A j \in hits : k <= j]

\* Which branch of parseBlock's loop the characters at parser.index select.
branch ==
    LET curr == getCurrent(index) IN
    IF isDone(index) THEN "end"
    ELSE IF startsWith(<<"/", "/">>, index) THEN "lineComment"
    ELSE IF startsWith(<<"/", "*">>, index) THEN "blockComment"
    ELSE IF definedTokenAt(index) # <<>> THEN "defined"
    ELSE IF isNumber(curr) THEN "number"
    ELSE IF startsWith(<<"\\", "\\">>, index) THEN "rawString"
    ELSE IF curr \in {"\"", "'"} \/ startsWith(<<"$", "\"">>, index)
            \/ startsWith(<<"$", "'">>, index) THEN "string"
    ELSE IF curr = ":" /\ tokens.end # 0 THEN "colon"
    ELSE IF isWord(curr) THEN "word"
    ELSE IF curr = top.term THEN "terminator"
    ELSE IF isWhitespace(curr) THEN "whitespace"
    ELSE IF curr = NL THEN "newline"
    ELSE IF curr = "," THEN "comma"
    ELSE IF curr \in {"(", "{", "["} THEN "open"
    ELSE "unexpected"

scanning(b) == pc = "scan" /\ branch = b

pos == Position(line, index, 1)

\* What the callback of the quoted-string branch appends for an escaped character.
escape(escaped) ==
    CASE escaped = "\\" -> "\\"
      [] escaped = "n" -> "\n"
      [] escaped = "r" -> "\r"
      [] escaped = "t" -> "\t"
      [] escaped = "\"" -> "\""
      [] OTHER -> ""

RECURSIVE skipString(_, _, _, _, _)
\* parser.skipUntil with the callback of the quoted-string branch, from index i:
\* where it stops, and why: at the terminator, at the end of the input, or at
\* "${", where the callback calls parseBlock("}").
skipString(i, ln, value, template, term) ==
    IF isDone(i) THEN [index |-> i, line |-> ln, value |-> value, stop |-> "end"]
    ELSE LET char == getCurrent(i) IN
         IF template /\ startsWith(<<"$", "{">>, i)
         THEN [index |-> i + 2, line |-> ln, value |-> value, stop |-> "interpolation"]
         ELSE IF char = "\\"
         THEN IF isDone(i + 1)
              THEN [index |-> i + 1, line |-> ln, value |-> value, stop |-> "end"]
              ELSE skipString(i + 2, ln, value \o escape(getCurrent(i + 1)), template, term)
         ELSE IF char = term
         THEN [index |-> i + 1, line |-> ln, value |-> value, stop |-> "terminator"]
         ELSE skipString(i + 1, IF char = NL THEN ln + 1 ELSE ln, value \o char,
                         template, term)

RECURSIVE blockComment(_, _, _)
\* The loop of the block-comment branch from index i at nesting depth `depth`:
\* the index and the line when it breaks.
blockComment(i, ln, depth) ==
    LET j == readUntil({k \in indices : \/ startsWith(<<"/", "*">>, k)
                                          \/ startsWith(<<"*", "/">>, k)
                                          \/ getCurrent(k) = NL}, i)
        cur == getCurrent(j)
        ln1 == IF cur = NL THEN ln + 1 ELSE ln
        d1 == IF cur = NL THEN depth ELSE IF cur = "/" THEN depth + 1 ELSE depth - 1
    IN IF d1 = -1 THEN [index |-> j + 2, line |-> ln1]
       ELSE blockComment(j + 2, ln1, d1)

\* The number branch: the literal's type, digits, value and the index after it.
number(i) ==
    LET type == IF startsWith(<<"0", "x">>, i) THEN "hex"
                ELSE IF startsWith(<<"0", "b">>, i) THEN "bin" ELSE "dec"
        i0 == IF type = "dec" THEN i ELSE i + 2
        digit(k) == CASE type = "dec" -> isNumber(getCurrent(k))
                      [] type = "hex" -> isHex(getCurrent(k))
                      [] type = "bin" -> getCurrent(k) \in {"0", "1"}
        i1 == readUntil({k \in indices : ~digit(k)}, i0)
        src1 == SubSeq(source, i0 + 1, i1)
        dot == type = "dec" /\ startsWith(<<".">>, i1)
        i2 == IF dot THEN readUntil({k \in indices : ~isNumber(getCurrent(k))}, i1 + 1) ELSE i1
        src2 == IF dot THEN src1 \o SubSeq(source, i1 + 1, i2) ELSE src1
        exp == type = "dec" /\ (startsWith(<<"e">>, i2) \/ startsWith(<<"E">>, i2))
        sign == exp /\ (startsWith(<<"+">>, i2 + 1) \/ startsWith(<<"-">>, i2 + 1))
        i3 == IF exp THEN IF sign THEN i2 + 2 ELSE i2 + 1 ELSE i2
        i4 == IF exp THEN readUntil({k \in indices : ~isNumber(getCurrent(k))}, i3) ELSE i2
        src4 == IF exp
                THEN src2 \o <<"e">> \o (IF sign THEN <<source[i2 + 2]>> ELSE <<>>)
                          \o SubSeq(source, i3 + 1, i4)
                ELSE src2
        radix == CASE type = "dec" -> 10 [] type = "hex" -> 16 [] type = "bin" -> 2
        value == IF dot \/ exp THEN [float |-> Str(src4)]
                 ELSE IF src4 = <<>> THEN [nan |-> TRUE]
                 ELSE [int |-> parseInt(src4, radix)]
    IN [index |-> i4, value |-> value, length |-> Len(src4)]

\* The unexpected-character branch: the diagnostics after it.
unexpected(errs, p) ==
    LET last == IF errs = <<>> THEN Null ELSE errs[Len(errs)] IN
    IF last # Null /\ last.pos.offset = p.offset - last.pos.length
    THEN [errs EXCEPT ![Len(errs)].pos.length = @ + 1]
    ELSE Append(errs, Diagnostic(MsgUnexpectedCharacter, p))

(***************************************************************************)
(* parseBlock: one action for each branch of the scanner's loop.           *)
(***************************************************************************)
\* processTokens(tokens) is entered: the first pass starts at tokens.start.
processTokens ==
    /\ pc' = "pass"
    /\ stage' = 0
    /\ iter' = tokens.start

ScanLineComment ==
    /\ scanning("lineComment")
    /\ index' = readUntil({k \in indices : getCurrent(k) = NL}, index + 2) + 1
    /\ line' = line + 1
    /\ UNCHANGED <<grammar, calls, source, errors, stack, pc, stage, iter, sweep0, result>>
    /\ steps' = steps + 1

ScanBlockComment ==
    /\ scanning("blockComment")
    /\ LET r == blockComment(index + 2, line, 0) IN
       /\ index' = r.index
       /\ line' = r.line
    /\ UNCHANGED <<grammar, calls, source, errors, stack, pc, stage, iter, sweep0, result>>
    /\ steps' = steps + 1

ScanDefinedToken ==
    /\ scanning("defined")
    /\ definitionLookupGet(grammar, Str(definedTokenAt(index))) = Null
    /\ LET operator == definedTokenAt(index) IN
       /\ stack' = withTokens(push(tokens,
                      OperatorNode(Str(operator), Position(line, index, Len(operator)))))
       /\ index' = index + Len(operator)
    /\ UNCHANGED <<grammar, calls, source, line, errors, pc, stage, iter, sweep0, result>>
    /\ steps' = steps + 1

ScanNumber ==
    /\ scanning("number")
    /\ LET n == number(index) IN
       /\ stack' = withTokens(push(tokens, Number(n.value, Position(line, index, n.length))))
       /\ index' = n.index
    /\ UNCHANGED <<grammar, calls, source, line, errors, pc, stage, iter, sweep0, result>>
    /\ steps' = steps + 1

\* The full-line string branch.
ScanRawString ==
    /\ scanning("rawString")
    /\ LET from == index + 2
           to == readUntil({k \in indices : getCurrent(k) = NL \/ getCurrent(k) = "\r"}, from)
           value == Str(SubSeq(source, from + 1, to))
           last == tokens.end
       IN /\ index' = (IF getCurrent(to) = "\r" THEN to + 1 ELSE to) + 1
          /\ stack' = withTokens(
                 IF last # 0 /\ tokens.val[last].kind = "string" /\ tokens.val[last].fullLine
                 THEN setValue(tokens, last,
                         [tokens.val[last] EXCEPT !.value = @ \o NL \o value])
                 ELSE push(tokens, StringNode(value, TRUE, pos)))
    /\ line' = line + 1
    /\ UNCHANGED <<grammar, calls, source, errors, pc, stage, iter, sweep0, result>>
    /\ steps' = steps + 1

\* The quoted-string branch is entered: the opening quote is consumed.
ScanString ==
    /\ scanning("string")
    /\ LET template == getCurrent(index) = "$"
           term == IF template THEN getCurrent(index + 1) ELSE getCurrent(index)
       IN /\ stack' = Append(stack, [Frame(term, "string", pos) EXCEPT !.template = template])
          /\ index' = index + (IF template THEN 2 ELSE 1)
    /\ pc' = "string"
    /\ UNCHANGED <<grammar, calls, source, line, errors, stage, iter, sweep0, result>>
    /\ steps' = steps + 1

skipped == skipString(index, line, top.value, top.template, top.term)

\* The literal segments without the one after the last slot.
slotStrings(strings, value) == strings

\* The literal segments of a format node: the text after the last slot is pushed
\* when skipUntil has returned.
finalStrings(strings, value) == Append(strings, value)

\* skipUntil's callback meets "${": it calls parseBlock("}").
StringInterpolation ==
    /\ pc = "string"
    /\ skipped.stop = "interpolation"
    /\ stack' = Append([stack EXCEPT ![Len(stack)].strings = Append(@, skipped.value),
                                     ![Len(stack)].value = ""],
                       Frame("}", "value", Position(skipped.line, skipped.index, 1)))
    /\ index' = skipped.index
    /\ line' = skipped.line
    /\ pc' = "scan"
    /\ UNCHANGED <<grammar, calls, source, errors, stage, iter, sweep0, result>>
    /\ steps' = steps + 1

\* skipUntil returns: the string or format token is pushed.
StringEnd ==
    /\ pc = "string"
    /\ skipped.stop # "interpolation"
    /\ stack' = [k \in 1..(Len(stack) - 1) |->
                  IF k = Len(stack) - 1
                  THEN [stack[k] EXCEPT !.tokens =
                           push(@, IF top.template
                                   THEN Format(finalStrings(top.strings, skipped.value),
                                               top.values, top.pos)
                                   ELSE StringNode(skipped.value, FALSE, top.pos))]
                  ELSE stack[k]]
    /\ index' = skipped.index
    /\ line' = skipped.line
    /\ pc' = "scan"
    /\ UNCHANGED <<grammar, calls, source, errors, stage, iter, sweep0, result>>
    /\ steps' = steps + 1

ScanColon ==
    /\ scanning("colon")
    /\ LET node == tokens.end
           ident == tokens.val[node]
       IN stack' = withTokens(
              IF ident.kind = "ident"
              THEN delete(push(tokens, LabelOperator(ident.name, ident.pos)), node)
              ELSE push(tokens, Separator(TRUE, pos)))
    /\ index' = index + 1
    /\ UNCHANGED <<grammar, calls, source, line, errors, pc, stage, iter, sweep0, result>>
    /\ steps' = steps + 1

ScanWord ==
    /\ scanning("word")
    /\ LET end == readUntil({k \in indices : ~isWord(getCurrent(k))}, index)
           word == SubSeq(source, index + 1, end)
       IN /\ stack' = withTokens(push(tokens,
                          Ident(Str(word), Position(line, index, Len(word)))))
          /\ index' = end
    /\ UNCHANGED <<grammar, calls, source, line, errors, pc, stage, iter, sweep0, result>>
    /\ steps' = steps + 1

ScanTerminator ==
    /\ scanning("terminator")
    /\ index' = index + 1
    /\ processTokens
    /\ UNCHANGED <<grammar, calls, source, line, errors, stack, sweep0, result>>
    /\ steps' = steps + 1

ScanWhitespace ==
    /\ scanning("whitespace")
    /\ index' = index + 1
    /\ UNCHANGED <<grammar, calls, source, line, errors, stack, pc, stage, iter, sweep0, result>>
    /\ steps' = steps + 1

ScanNewline ==
    /\ scanning("newline")
    /\ stack' = IF tokens.end = 0 \/ tokens.val[tokens.end].kind # "separator"
                THEN withTokens(push(tokens, Separator(FALSE, pos)))
                ELSE stack
    /\ index' = index + 1
    /\ line' = line + 1
    /\ UNCHANGED <<grammar, calls, source, errors, pc, stage, iter, sweep0, result>>
    /\ steps' = steps + 1

ScanComma ==
    /\ scanning("comma")
    /\ IF tokens.end # 0 /\ tokens.val[tokens.end].kind = "separator"
       THEN /\ errors' = Append(errors, Diagnostic(MsgUnexpectedComma, pos))
            /\ stack' = stack
       ELSE /\ stack' = withTokens(push(tokens, Separator(TRUE, pos)))
            /\ errors' = errors
    /\ index' = index + 1
    /\ UNCHANGED <<grammar, calls, source, line, pc, stage, iter, sweep0, result>>
    /\ steps' = steps + 1

ScanOpen ==
    /\ scanning("open")
    /\ LET curr == getCurrent(index) IN
       stack' = Append(stack,
           CASE curr = "(" -> Frame(")", "group", pos)
             [] curr = "{" -> Frame("}", "block", pos)
             [] curr = "[" -> Frame("]", "tuple", pos))
    /\ index' = index + 1
    /\ UNCHANGED <<grammar, calls, source, line, errors, pc, stage, iter, sweep0, result>>
    /\ steps' = steps + 1

ScanUnexpected ==
    /\ scanning("unexpected")
    /\ index' = index + 1
    /\ errors' = unexpected(errors, pos)
    /\ UNCHANGED <<grammar, calls, source, line, stack, pc, stage, iter, sweep0, result>>
    /\ steps' = steps + 1

\* The loop ends at the end of input.
ScanEnd ==
    /\ scanning("end")
    /\ errors' = IF top.term # NoTerm
                 THEN Append(errors, Diagnostic(MsgUnterminated(top.term), pos))
                 ELSE errors
    /\ processTokens
    /\ UNCHANGED <<grammar, calls, source, index, line, stack, sweep0, result>>
    /\ steps' = steps + 1

(***************************************************************************)
(* processTokens: one action for each turn of the cursor loop.             *)
(***************************************************************************)
inPass == pc = "pass" /\ stage < Len(grammar.passes) /\ iter # 0

\* An operator token that no rule of this stage resolves: the cursor advances.
OperatorAdvance ==
    /\ inPass
    /\ tokens.val[iter].kind = "operator"
    /\ resolving(grammar, tokens, iter, stage) = Null
    /\ iter' = tokens.next[iter]
    /\ UNCHANGED <<grammar, calls, source, index, line, errors, stack, pc, stage, sweep0, result>>
    /\ steps' = steps + 1

\* An operator token resolved by this stage.
OperatorResolve ==
    /\ inPass
    /\ tokens.val[iter].kind = "operator"
    /\ resolving(grammar, tokens, iter, stage) # Null
    /\ LET o == resolve(tokens, iter, resolving(grammar, tokens, iter, stage)) IN
       /\ stack' = withTokens(o.tokens)
       /\ iter' = o.ret
    /\ UNCHANGED <<grammar, calls, source, index, line, errors, pc, stage, sweep0, result>>
    /\ steps' = steps + 1

\* Any other token: the operations of the pass are tried in order.
OperationDispatch ==
    /\ inPass
    /\ tokens.val[iter].kind # "operator"
    /\ LET o == dispatch(grammar.passes[stage + 1], 1, tokens, iter) IN
       /\ stack' = withTokens(o.tokens)
       /\ iter' = o.ret
    /\ UNCHANGED <<grammar, calls, source, index, line, errors, pc, stage, sweep0, result>>
    /\ steps' = steps + 1

\* The cursor ran off the sequence: the next pass starts.
PassEnd ==
    /\ pc = "pass" /\ stage < Len(grammar.passes) /\ iter = 0
    /\ stage' = stage + 1
    /\ iter' = tokens.start
    /\ UNCHANGED <<grammar, calls, source, index, line, errors, stack, pc, sweep0, result>>
    /\ steps' = steps + 1

\* All passes done: the validation sweep starts.
SweepBegin ==
    /\ pc = "pass" /\ stage = Len(grammar.passes)
    /\ pc' = "sweep"
    /\ iter' = tokens.start
    /\ sweep0' = [seq |-> values(tokens), nerr |-> Len(errors), depth |-> Len(stack)]
    /\ UNCHANGED <<grammar, calls, source, index, line, errors, stack, stage, result>>
    /\ steps' = steps + 1

SweepStep ==
    /\ pc = "sweep" /\ iter # 0
    /\ LET r == sweepToken(tokens, iter, errors) IN
       /\ stack' = withTokens(r.tokens)
       /\ errors' = r.errors
       /\ iter' = IF r.brk THEN 0 ELSE r.tokens.next[iter]
    /\ UNCHANGED <<grammar, calls, source, index, line, pc, stage, sweep0, result>>
    /\ steps' = steps + 1

\* processTokens returns [...tokens.values()] to parseBlock, which returns it to
\* the enclosing parseBlock (which pushes the bracket node) or to parse.
Return ==
    /\ pc = "sweep" /\ iter = 0
    /\ Len(stack) = 1 /\ ~endless(tokens) => calls.callers = <<>>
    /\ stage' = 0
    /\ IF endless(tokens)
       THEN pc' = "hang" /\ stack' = stack /\ result' = result
       ELSE IF Len(stack) = 1
       THEN /\ result' = [errors |-> IF Len(errors) > 0 THEN errors ELSE Null,
                          result |-> Children("root", values(tokens),
                                              Position(lineOffset, 0, 1))]
            /\ pc' = "done"
            /\ stack' = stack
       ELSE /\ stack' = [k \in 1..(Len(stack) - 1) |->
                           IF k = Len(stack) - 1
                           THEN IF top.kind = "value"
                                THEN [stack[k] EXCEPT !.values = Append(@, values(tokens))]
                                ELSE [stack[k] EXCEPT !.tokens =
                                         push(@, Children(top.kind, values(tokens), top.pos))]
                           ELSE stack[k]]
            /\ pc' = IF top.kind = "value" THEN "string" ELSE "scan"
            /\ result' = result
    /\ UNCHANGED <<grammar, calls, source, index, line, errors, iter, sweep0>>
    /\ steps' = steps + 1

(***************************************************************************)
(* parse(source, grammar): the inputs and the specification.               *)
(***************************************************************************)
RECURSIVE phrases(_, _)
\* Every concatenation of at most n of the pieces.
phrases(pieces, n) ==
    IF n = 0 THEN {<<>>}
    ELSE LET shorter == phrases(pieces, n - 1) IN
         shorter \cup {s \o c : s \in shorter, c \in pieces}

Input(operations, content) == [operations |-> operations, content |-> content]

\* Grammars that register - as prefix and as infix: the infix stage first, and
\* both in one stage (getArithmeticOperators has the prefix stage first).
infixFirstOperators ==
    << << Operator(<<"+">>, "infix", "add"), Operator(<<"-">>, "infix", "sub") >>,
       << Operator(<<"-">>, "prefix", "neg") >> >>

sameStageOperators ==
    << << Operator(<<"-">>, "prefix", "neg"), Operator(<<"-">>, "infix", "sub") >> >>

\* A grammar that declares a postfix operator, beside the other bindings of the
\* same token and the built-in operations.
postfixOperations ==
    << << Operator(<<"!">>, "postfix", "fact"),
          Operator(<<"!">>, "prefix", "not"),
          Operator(<<"!">>, "infix", "xor"),
          Invocation("group", NoEmit) >>,
       << Labeling >>,
       << KeywordBinding >>,
       << BlockBinding >> >>

postfixOnlyOperations ==
    << << Operator(<<"!">>, "postfix", "fact") >>, << KeywordBinding, BlockBinding >> >>

\* A stage with an operator that has no emission rule.
silentOperations ==
    << << Operator(<<"?">>, "infix", NoEmit), Operator(<<"-">>, "infix", "sub") >> >>

Operands == {<<"a">>, <<"1">>, <<"(", "b", ")">>}

InfixTokens == {<<"+">>, <<"-">>, <<"*">>, <<"/">>}

\* The documents the specification names.
Doc_1_add_2_div_3 == <<"1", " ", "+", " ", "2", " ", "/", " ", "3">>
Doc_neg1_add_2 == <<"-", "1", " ", "+", " ", "2">>
Doc_1_sub_2 == <<"1", " ", "-", " ", "2">>
Doc_1_sub_neg2 == <<"1", " ", "-", " ", "-", "2">>
Doc_call == <<"a", "(", "b", ",", " ", "c", ")">>
Doc_index == <<"a", "[", "b", "]">>
Doc_call_call == <<"a", "(", "b", ")", "(", "c", ")">>
Doc_call_index == <<"a", "(", "b", ")", "[", "c", "]">>
Doc_1_sub_2_sub_3 == <<"1", " ", "-", " ", "2", " ", "-", " ", "3">>
Doc_a_sub_b_add_c == <<"a", " ", "-", " ", "b", " ", "+", " ", "c">>
Doc_return == <<"r", "e", "t", "u", "r", "n", " ", "x", ",", " ", "y">>
Doc_bare_arrow == <<"=", ">", " ", "a">>
Doc_escapes ==
    <<"\"", "\\", "n", "\\", "r", "\\", "t", "\\", "\\", "\\", "\"", "\"">>
Doc_single_quote == <<"'", "a", "\\", "'", "b", "'">>
Doc_format_quote == <<"$", "'", "\\", "'", "'">>
Doc_two_slots == <<"$", "\"", "$", "{", "a", "}", "$", "{", "b", "}", "\"">>
Doc_arrow == <<"(", "a", ",", " ", "b", ")", " ", "=", ">", " ", "a", " ", "+", " ", "b">>
Doc_braces == <<"(", "a", ",", " ", "b", ")", " ", "{", " ", "a", " ", "+", " ", "b", " ", "}">>
Doc_garbage == <<"@", "@", "@">>
Doc_line_comment == <<"a", " ", "/", "/", " ", "c", NL, "b">>
Doc_block_comment == <<"a", " ", "/", "*", " ", "c", " ", "*", "/", " ", "b">>

Doc_block_then_numbers == <<"a", "{", "b", "}", " ", "1", " ", "2">>
Doc_open_block == <<"{", " ", "a">>
Doc_open_comment == <<"(", "/", "/">>
Doc_string == <<"\"", "a", "\\", "n", "\"">>
Doc_format == <<"$", "\"", "x", "$", "{", "a", "}", "y", "\"">>
Doc_raw_strings == <<"\\", "\\", "a", NL, "\\", "\\", "b">>

DefaultDocs ==
    {Doc_call, Doc_index, Doc_call_call, Doc_call_index, Doc_arrow, Doc_braces,
     Doc_garbage, Doc_line_comment, Doc_block_comment, Doc_block_then_numbers,
     Doc_string, Doc_format, Doc_raw_strings, Doc_open_block, Doc_open_comment,
     Doc_return, Doc_bare_arrow, Doc_escapes, Doc_single_quote, Doc_format_quote,
     Doc_two_slots}

StringPieces ==
    {<<"\"">>, <<"$", "\"">>, <<"$", "{">>, <<"}">>, <<"a">>, <<"\\">>, <<NL>>}

\* Pieces of documents of quoted strings with escapes.
EscapePieces ==
    {<<"'">>, <<"\"">>, <<"\\", "'">>, <<"\\", "\"">>, <<"\\", "n">>, <<"\\", "\\">>}

\* Pieces of documents of a keyword and what follows it.
KeywordPieces ==
    {<<"k", " ">>, <<"1", " ">>, <<"1", ",">>, <<",">>, <<NL>>, <<"{", "}">>, <<"-">>}

\* Pieces of documents of nested scopes, and of documents that draw diagnostics.
DefaultPieces ==
    {<<"a">>, <<"-">>, <<":">>, <<NL>>, <<"(">>,
     <<"(", "b", ")">>, <<"{", "b", "}">>, <<"[", "b", "]">>, <<"=", ">">>}

DiagnosticPieces == {<<"a">>, <<"-">>, <<",">>, <<":">>, <<NL>>, <<"@">>}

ArithmeticDocs ==
    {Doc_1_add_2_div_3, Doc_neg1_add_2, Doc_1_sub_2, Doc_1_sub_neg2,
     Doc_1_sub_2_sub_3, Doc_a_sub_b_add_c}
    \cup {x \o <<" ", "/", " ">> \o y \o <<" ", "+", " ">> \o z :
            x \in Operands, y \in Operands, z \in Operands}
    \cup {<<"a">> \o o \o <<"1">> \o p \o <<"a">> : o \in InfixTokens, p \in InfixTokens}

Inputs ==
    {Input(getDefaultOperations, s) :
        s \in DefaultDocs \cup phrases(DefaultPieces, MaxDocLen)
                          \cup phrases(DiagnosticPieces, MaxDocLen)
                          \cup phrases(StringPieces, MaxDocLen)
                          \cup phrases(KeywordPieces, MaxDocLen)
                          \cup phrases(EscapePieces, MaxDocLen)}
    \cup {Input(getArithmeticOperators, s) :
            s \in ArithmeticDocs
                    \cup phrases({<<"1">>, <<"-">>, <<"+">>, <<NL>>}, MaxDocLen + 1)
                    \cup phrases({<<"/">>, <<"*">>, <<"a">>, <<NL>>}, MaxDocLen + 1)}
    \cup {Input(g, s) :
            g \in {infixFirstOperators, sameStageOperators},
            s \in {Doc_1_sub_neg2} \cup phrases({<<"1">>, <<"-">>}, MaxDocLen + 1)}
    \cup {Input(postfixOperations, s) :
            s \in phrases({<<"a">>, <<"!">>, <<NL>>, <<",">>}, MaxDocLen + 1)}
    \cup {Input(silentOperations, s) :
            s \in phrases({<<"a">>, <<"?">>, <<"-">>}, MaxDocLen)}
    \cup {Input(postfixOnlyOperations, s) :
            s \in phrases({<<"a">>, <<"!">>, <<NL>>}, MaxDocLen + 1)}

\* What the first call returned, before any call has returned.
NoCall == [content |-> <<>>, tree |-> Null, errors |-> <<>>]

\* parse(source, grammar) is called: parser.restart(source.content).
begin(g, content) ==
    /\ grammar = g
    /\ source = content
    /\ index = 0
    /\ line = lineOffset
    /\ errors = <<>>
    /\ stack = <<Frame(NoTerm, "root", Position(lineOffset, 0, 1))>>
    /\ pc = "scan"
    /\ stage = 0
    /\ iter = 0
    /\ sweep0 = [seq |-> <<>>, nerr |-> 0, depth |-> 0]
    /\ result = Null
    /\ steps = 0
    /\ calls = [document |-> content, callers |-> <<>>, first |-> NoCall, count |-> 0]

start(in) == begin(Grammar(in.operations), in.content)

Init == \E in \in Inputs : start(in)

Next ==
    \/ ScanLineComment
    \/ ScanBlockComment
    \/ ScanDefinedToken
    \/ ScanNumber
    \/ ScanRawString
    \/ ScanString
    \/ StringInterpolation
    \/ StringEnd
    \/ ScanColon
    \/ ScanWord
    \/ ScanTerminator
    \/ ScanWhitespace
    \/ ScanNewline
    \/ ScanComma
    \/ ScanOpen
    \/ ScanUnexpected
    \/ ScanEnd
    \/ OperatorAdvance
    \/ OperatorResolve
    \/ OperationDispatch
    \/ PassEnd
    \/ SweepBegin
    \/ SweepStep
    \/ Return

Spec == Init /\ [][Next]_vars

(***************************************************************************)
(* Several parse calls: one after another, and a call made by a            *)
(* definition factory while the scanner of another call is in its loop.    *)
(***************************************************************************)
MaxCalls == 2

\* parser.restart(string)
restart(string) == [string |-> string, index |-> 0]

\* The locals of a call that are kept from the call before.
keptLocals(previous) == previous

\* What a call of parse starts from: `line` and `errors` are locals of the call.
parseLocals(previous) == [line |-> lineOffset, errors |-> <<>>]

\* A defined token that has a factory which only builds its node.
ScanDefinition ==
    /\ scanning("defined")
    /\ LET operator == definedTokenAt(index)
           factory == definitionLookupGet(grammar, Str(operator)) IN
       /\ factory # Null
       /\ ~factory.nested
       /\ stack' = withTokens(push(tokens,
                      define(factory, Position(line, index, Len(operator)))))
       /\ index' = index + Len(operator)
    /\ UNCHANGED <<grammar, calls, source, line, errors, pc, stage, iter, sweep0, result>>
    /\ steps' = steps + 1

\* A defined token whose factory calls parse: the call in progress waits in
\* define(pos) with its locals, the nested call restarts the shared parser.
FactoryParses ==
    /\ scanning("defined")
    /\ LET operator == definedTokenAt(index)
           factory == definitionLookupGet(grammar, Str(operator))
           locals == parseLocals([line |-> line, errors |-> errors]) IN
       /\ factory # Null
       /\ factory.nested
       /\ calls' = [calls EXCEPT
                      !.document = factory.content,
                      !.callers = Append(@, [stack |-> stack, line |-> line, errors |-> errors,
                                             document |-> calls.document,
                                             factory |-> factory,
                                             pos |-> Position(line, index, Len(operator)),
                                             string |-> source,
                                             index |-> index + Len(operator)])]
       /\ source' = restart(factory.content).string
       /\ index' = restart(factory.content).index
       /\ line' = locals.line
       /\ errors' = locals.errors
    /\ stack' = <<Frame(NoTerm, "root", Position(lineOffset, 0, 1))>>
    /\ UNCHANGED <<grammar, pc, stage, iter, sweep0, result>>
    /\ steps' = steps + 1

\* The nested call returns to the factory, the factory returns its node, and
\* the waiting call pushes it and goes on with its loop.
FactoryReturns ==
    /\ pc = "sweep" /\ iter = 0
    /\ Len(stack) = 1 /\ ~endless(tokens)
    /\ calls.callers # <<>>
    /\ LET outer == calls.callers[Len(calls.callers)] IN
       /\ stack' = [outer.stack EXCEPT ![Len(outer.stack)].tokens =
                        push(@, define(outer.factory, outer.pos))]
       /\ line' = outer.line
       /\ errors' = outer.errors
       /\ calls' = [calls EXCEPT
                      !.document = outer.document,
                      !.callers = SubSeq(@, 1, Len(@) - 1)]
    /\ pc' = "scan"
    /\ stage' = 0
    /\ UNCHANGED <<grammar, source, index, iter, sweep0, result>>
    /\ steps' = steps + 1

\* parse has returned and is called again, with the same grammar.
parseAgain(content) ==
    /\ pc = "done"
    /\ calls.count < MaxCalls
    /\ LET locals == parseLocals([line |-> line, errors |-> errors]) IN
       /\ line' = locals.line
       /\ errors' = locals.errors
    /\ calls' = [document |-> content,
                 callers |-> <<>>,
                 first |-> IF calls.count = 0
                           THEN [content |-> calls.document, tree |-> result.result,
                                 errors |-> errors]
                           ELSE calls.first,
                 count |-> calls.count + 1]
    /\ source' = restart(content).string
    /\ index' = restart(content).index
    /\ stack' = <<Frame(NoTerm, "root", Position(lineOffset, 0, 1))>>
    /\ pc' = "scan"
    /\ stage' = 0
    /\ iter' = 0
    /\ sweep0' = [seq |-> <<>>, nerr |-> 0, depth |-> 0]
    /\ result' = Null
    /\ steps' = 0
    /\ UNCHANGED grammar

\* The definitions of the grammar of the calls: a constant, and a token whose
\* factory parses a snippet.
Snippet == <<"b", ",", "b">>

definitions ==
    << << <<"T">>, Factory("true", FALSE, <<>>) >>,
       << <<"N">>, Factory("n", TRUE, Snippet) >> >>

Doc_label_lines == <<"a", ":", NL, "b">>
Doc_nested == <<"N", ",", "a">>
Doc_constant == <<"T", ",", "a">>

\* The documents of the later calls.
AgainDocs == {Doc_nested, Doc_constant, Doc_garbage, Doc_open_block, <<"a", ",", ",">>, <<>>}

CallDocs ==
    DefaultDocs \cup AgainDocs \cup {Doc_label_lines}
    \cup phrases({<<"N">>, <<"T">>, <<"a">>, <<",">>}, MaxDocLen)

InitCalls ==
    \E content \in CallDocs :
        begin(newGrammar(getDefaultOperations, definitions), content)

NextCalls ==
    \/ Next
    \/ ScanDefinition
    \/ FactoryParses
    \/ FactoryReturns
    \/ \E content \in AgainDocs : parseAgain(content)

SpecCalls == InitCalls /\ [][NextCalls]_vars

(***************************************************************************)
(* Shapes: nodes with their positions left out, for comparing trees.       *)
(***************************************************************************)
RECURSIVE strip(_)
strip(n) ==
    CASE n.kind = "ident" -> [kind |-> "ident", name |-> n.name]
      [] n.kind = "number" -> [kind |-> "number", value |-> n.value]
      [] n.kind = "operator" -> [kind |-> "operator", token |-> n.token]
      [] n.kind = "separator" -> [kind |-> "separator", strong |-> n.strong]
      [] n.kind = "label_op" -> [kind |-> "label_op", name |-> n.name]
      [] n.kind = "label" -> [kind |-> "label", label |-> n.label, target |-> strip(n.target)]
      [] n.kind = "string" -> [kind |-> "string", value |-> n.value, fullLine |-> n.fullLine]
      [] n.kind = "format" ->
            [kind |-> "format", strings |-> n.strings,
             values |-> [k \in 1..Len(n.values) |->
                           [j \in 1..Len(n.values[k]) |-> strip(n.values[k][j])]]]
      [] n.kind = "invocation" ->
            [kind |-> "invocation", target |-> strip(n.target),
             children |-> [k \in 1..Len(n.children) |-> strip(n.children[k])],
             block |-> IF n.block = Null THEN Null ELSE strip(n.block)]
      [] OTHER ->
            [kind |-> n.kind, children |-> [k \in 1..Len(n.children) |-> strip(n.children[k])]]

ident(name) == [kind |-> "ident", name |-> name]
num(k) == [kind |-> "number", value |-> [int |-> k]]
group(children) == [kind |-> "group", children |-> children]
block(children) == [kind |-> "block", children |-> children]
invoke3(target, children, blk) ==
    [kind |-> "invocation", target |-> target, children |-> children, block |-> blk]
call(name, children) == invoke3(ident(name), children, Null)

\* The children of the root that parse returned, without positions.
tree == strip(result.result).children

done == pc = "done"

parsed(operations, content) ==
    done /\ source = content /\ grammar = Grammar(operations)

RECURSIVE hasLeftover(_)
\* An operator, separator or label_op node somewhere in the tree of n.
hasLeftover(n) ==
    \/ n.kind \in {"operator", "separator", "label_op"}
    \/ /\ n.kind \in {"root", "block", "group", "tuple", "invocation"}
       /\ \E k \in 1..Len(n.children) : hasLeftover(n.children[k])
    \/ /\ n.kind = "invocation"
       /\ hasLeftover(n.target) \/ (n.block # Null /\ hasLeftover(n.block))
    \/ n.kind = "label" /\ hasLeftover(n.target)
    \/ /\ n.kind = "format"
       /\ \E k \in 1..Len(n.values) : \E j \in 1..Len(n.values[k]) : hasLeftover(n.values[k][j])

(***************************************************************************)
(* C1.  parse terminates and returns a root node, for every document and   *)
(* every grammar: no run walks a token list without end, every run stays   *)
(* within a number of steps that is fixed by the document and the grammar, *)
(* every state short of the return has a next step, and what is returned   *)
(* is a node of kind root, with the diagnostics when there are any.        *)
(***************************************************************************)
\* At most Len(source) + 1 scopes and strings are opened, each with one step to
\* leave the scanner, one per stage to end the pass, one to begin the sweep and
\* one to return; each character gives at most one token, visited at most twice
\* in a stage, save for the stage that made it.
stepBound == (Len(source) + 1) * (3 * Len(grammar.passes) + 5)

\* The loop that the program counter stands in has a next turn or an exit.
canStep ==
    \/ pc = "scan" /\ Len(stack) >= 1 /\ top.kind # "string"
    \/ pc = "string" /\ Len(stack) >= 2 /\ top.kind = "string"
    \/ pc = "pass" /\ stage <= Len(grammar.passes)
                   /\ (iter = 0 \/ iter \in 1..Len(tokens.val))
    \/ pc = "sweep" /\ (iter = 0 \/ iter \in 1..Len(tokens.val))

C1_ParseTerminates ==
    /\ pc # "hang"
    /\ steps <= stepBound
    /\ ~done => canStep
    /\ done =>
          /\ result.result.kind = "root"
          /\ Len(stack) = 1
          /\ index >= Len(source)
          /\ result.errors = (IF errors = <<>> THEN Null ELSE errors)

C1_Witness ==
    /\ done
    /\ grammar = Grammar(postfixOperations)
    /\ errors # <<>>
    /\ result.result.kind = "root"
    /\ \E k \in 1..Len(result.result.children) :
          result.result.children[k].kind = "invocation"

(***************************************************************************)
(* C2.  The tree parse returns holds no operator, separator or label_op    *)
(* node, at any depth: whatever the stages left over is reported by a      *)
(* diagnostic and kept out of the tree.                                    *)
(***************************************************************************)
C2_NoLeftoverInTree == done => ~hasLeftover(result.result)

(***************************************************************************)
(* C3.  Stages run in declaration order and an operator is resolved only   *)
(* in its own stage, so the operator of the earlier stage binds tighter:   *)
(* 1 + 2 / 3 is add(1, div(2, 3)), x / y + z is add(div(x, y), z) for all  *)
(* operands x, y, z, and a o 1 p a nests the operator of the earlier stage *)
(* inside the other one; no diagnostics.                                   *)
(***************************************************************************)
operandNode(x) ==
    CASE x = <<"a">> -> ident("a")
      [] x = <<"1">> -> num(1)
      [] x = <<"(", "b", ")">> -> group(<<ident("b")>>)

emitOf(o) ==
    CASE o = <<"+">> -> "add" [] o = <<"-">> -> "sub"
      [] o = <<"*">> -> "mul" [] o = <<"/">> -> "div"

early(o) == o \in {<<"*">>, <<"/">>}

C3_StagePrecedence ==
    /\ parsed(getArithmeticOperators, Doc_1_add_2_div_3) =>
          /\ tree = <<call("add", <<num(1), call("div", <<num(2), num(3)>>)>>)>>
          /\ errors = <<>>
    /\ \A x \in Operands, y \in Operands, z \in Operands :
          parsed(getArithmeticOperators,
                 x \o <<" ", "/", " ">> \o y \o <<" ", "+", " ">> \o z) =>
             /\ tree = <<call("add", <<call("div", <<operandNode(x), operandNode(y)>>), operandNode(z)>>)>>
             /\ errors = <<>>
    /\ \A o \in InfixTokens, p \in InfixTokens :
          parsed(getArithmeticOperators, <<"a">> \o o \o <<"1">> \o p \o <<"a">>) =>
             /\ early(p) /\ ~early(o) =>
                   tree = <<call(emitOf(o), <<ident("a"), call(emitOf(p), <<num(1), ident("a")>>)>>)>>
             /\ early(o) /\ ~early(p) =>
                   tree = <<call(emitOf(p), <<call(emitOf(o), <<ident("a"), num(1)>>), ident("a")>>)>>
             /\ errors = <<>>
    /\ inPass /\ tokens.val[iter].kind = "operator" =>
          LET r == resolving(grammar, tokens, iter, stage) IN
          r # Null => r.presentence = stage

C3_Witness ==
    /\ parsed(getArithmeticOperators, Doc_1_add_2_div_3)
    /\ tree = <<call("add", <<num(1), call("div", <<num(2), num(3)>>)>>)>>

(***************************************************************************)
(* C4.  With the arithmetic operators a - with an operand only after it is *)
(* the prefix neg and a - between two operands is the infix sub: -1 + 2 is *)
(* add(neg(1), 2) and 1 - 2 is sub(1, 2), both without diagnostics.        *)
(***************************************************************************)
C4_PrefixAndInfixMinus ==
    /\ parsed(getArithmeticOperators, Doc_neg1_add_2) =>
          /\ tree = <<call("add", <<call("neg", <<num(1)>>), num(2)>>)>>
          /\ errors = <<>>
    /\ parsed(getArithmeticOperators, Doc_1_sub_2) =>
          /\ tree = <<call("sub", <<num(1), num(2)>>)>>
          /\ errors = <<>>
    /\ parsed(getArithmeticOperators, <<"-", "1">>) =>
          /\ tree = <<call("neg", <<num(1)>>)>>
          /\ errors = <<>>
    /\ parsed(getArithmeticOperators, <<"1", "-", "1">>) =>
          /\ tree = <<call("sub", <<num(1), num(1)>>)>>
          /\ errors = <<>>
    /\ /\ grammar = Grammar(getArithmeticOperators)
       /\ inPass
       /\ tokens.val[iter] = OperatorNode("-", tokens.val[iter].pos)
       => LET r == resolving(grammar, tokens, iter, stage) IN
          r # Null =>
             /\ r.emit = "neg" <=> ~targetPrev(tokens, iter) /\ targetNext(tokens, iter)
             /\ r.emit = "sub" <=> targetPrev(tokens, iter) /\ targetNext(tokens, iter)

C4_Witness ==
    /\ parsed(getArithmeticOperators, Doc_neg1_add_2)
    /\ tree = <<call("add", <<call("neg", <<num(1)>>), num(2)>>)>>
    /\ errors = <<>>

(***************************************************************************)
(* C5.  When a grammar registers - both as prefix and as infix, every -    *)
(* of 1 - -2 is resolved by the entry its position selects, whether the    *)
(* prefix stage is declared before the infix stage, after it, or is the    *)
(* same stage: the result is sub(1, neg(2)) and no - is left over.         *)
(***************************************************************************)
C5_MinusResolvedInAnyStageOrder ==
    \A g \in {getArithmeticOperators, infixFirstOperators, sameStageOperators} :
       parsed(g, Doc_1_sub_neg2) =>
          /\ tree = <<call("sub", <<num(1), call("neg", <<num(2)>>)>>)>>
          /\ errors = <<>>

(***************************************************************************)
(* C6.  Every operator token that is still in a scope's sequence after all *)
(* stages have run gets an "Unexpected operator" diagnostic at its         *)
(* position, wherever it stands in the sequence.                           *)
(***************************************************************************)
sweepDone == pc = "sweep" /\ iter = 0

\* The diagnostics the sweep of the current scope has appended.
sweepErrors == SubSeq(errors, sweep0.nerr + 1, Len(errors))

C6_EverySurvivingOperatorReported ==
    sweepDone =>
       \A k \in 1..Len(sweep0.seq) :
          sweep0.seq[k].kind = "operator" =>
             \E j \in 1..Len(sweepErrors) :
                sweepErrors[j] = Diagnostic(MsgUnexpectedOperator, sweep0.seq[k].pos)

(***************************************************************************)
(* C7.  The validation sweep of a scope emits "Unexpected token" exactly   *)
(* once for each pair of adjacent non-separator tokens whose left member   *)
(* is not an invocation with a block, at the right token's position, in    *)
(* the order of the sequence, and for no other pair.                       *)
(***************************************************************************)
wantsSeparator(seq, k) ==
    /\ seq[k].kind # "separator"
    /\ seq[k + 1].kind # "separator"
    /\ ~(seq[k].kind = "invocation" /\ seq[k].block # Null)

expectedUnexpectedTokens(seq) ==
    LET at == SelectSeq([k \in 1..(Len(seq) - 1) |-> k], LAMBDA k : wantsSeparator(seq, k))
    IN [j \in 1..Len(at) |-> Diagnostic(MsgUnexpectedToken, seq[at[j] + 1].pos)]

C7_UnexpectedTokenPerAdjacentPair ==
    sweepDone =>
       SelectSeq(sweepErrors, LAMBDA e : e.message = MsgUnexpectedToken)
          = expectedUnexpectedTokens(sweep0.seq)

\* A swept scope whose first pair is exempt and whose second pair is reported.
C7_Witness ==
    /\ sweepDone
    /\ Len(sweep0.seq) = 3
    /\ sweep0.seq[1].kind = "invocation" /\ sweep0.seq[1].block # Null
    /\ sweep0.seq[2].kind = "number"
    /\ sweep0.seq[3].kind = "number"
    /\ sweepErrors = <<Diagnostic(MsgUnexpectedToken, sweep0.seq[3].pos)>>

(***************************************************************************)
(* C8.  When the cursor of a stage that holds the call sugar stands on a   *)
(* group (tuple) whose predecessor is an operand, the operand and the      *)
(* bracket node are replaced by the one invocation(operand, the group's    *)
(* children) (invocation(index, [operand, ...the tuple's children])).      *)
(* With the default operations a(b, c), a[b], a(b)(c) and a(b)[c] give     *)
(* a(b, c), index(a, b), (a(b))(c) and index(a(b), c).                     *)
(***************************************************************************)
hasSugar(pass, kind) ==
    \E j \in 1..Len(pass) :
       pass[j] = [Invocation(kind, IF kind = "tuple" THEN "index" ELSE NoEmit)
                     EXCEPT !.presentence = pass[j].presentence]

indexOf(seq, x) == CHOOSE k \in 1..Len(seq) : seq[k] = x

sugared(operand, bracket) ==
    IF bracket.kind = "group"
    THEN invoke3(strip(operand), strip(bracket).children, Null)
    ELSE invoke3(ident("index"), <<strip(operand)>> \o strip(bracket).children, Null)

C8_Step ==
    /\ inPass
    /\ tokens.val[iter].kind \in {"group", "tuple"}
    /\ hasSugar(grammar.passes[stage + 1], tokens.val[iter].kind)
    /\ tokens.prev[iter] # 0
    /\ isNodeTarget(tokens.val[tokens.prev[iter]])
    => LET before == values(tokens)
           k == indexOf(keys(tokens), iter)
           after == values(tokens')
       IN /\ k > 1 /\ keys(tokens)[k - 1] = tokens.prev[iter]
          /\ Len(after) = Len(before) - 1
          /\ \A j \in 1..(k - 2) : after[j] = before[j]
          /\ \A j \in k..Len(after) : after[j] = before[j + 1]
          /\ strip(after[k - 1]) = sugared(before[k - 1], before[k])

C8_Documents ==
    /\ parsed(getDefaultOperations, Doc_call) =>
          tree = <<invoke3(ident("a"), <<ident("b"), ident("c")>>, Null)>>
    /\ parsed(getDefaultOperations, Doc_index) =>
          tree = <<call("index", <<ident("a"), ident("b")>>)>>
    /\ parsed(getDefaultOperations, Doc_call_call) =>
          tree = <<invoke3(call("a", <<ident("b")>>), <<ident("c")>>, Null)>>
    /\ parsed(getDefaultOperations, Doc_call_index) =>
          tree = <<call("index", <<call("a", <<ident("b")>>), ident("c")>>)>>
    /\ done /\ source \in {Doc_call, Doc_index, Doc_call_call, Doc_call_index} =>
          errors = <<>>

C8_InvocationSugar == [][C8_Step]_vars /\ []C8_Documents

C8_Witness ==
    /\ parsed(getDefaultOperations, Doc_call_index)
    /\ tree = <<call("index", <<call("a", <<ident("b")>>), ident("c")>>)>>

(***************************************************************************)
(* C9.  With the default operations (a, b) => a + b and (a, b) { a + b }   *)
(* both give one invocation of the arrow marker with the children [a, b];  *)
(* the block of the brace form is the block node that holds add(a, b), and *)
(* the block of the arrow form is add(a, b) itself.                        *)
(***************************************************************************)
arrowCall(blk) == invoke3(ident("<int>arrow"), <<ident("a"), ident("b")>>, blk)

sum == call("add", <<ident("a"), ident("b")>>)

C9_ArrowAndBraces ==
    /\ parsed(getDefaultOperations, Doc_arrow) =>
          tree = <<arrowCall(sum)>> /\ errors = <<>>
    /\ parsed(getDefaultOperations, Doc_braces) =>
          tree = <<arrowCall(block(<<sum>>))>> /\ errors = <<>>

C9_Witness ==
    /\ parsed(getDefaultOperations, Doc_arrow)
    /\ tree = <<arrowCall(sum)>>

\* C9 as the specification words it: the arrow form has the very block that
\* the brace form has.
C9_SameBlock ==
    done /\ source \in {Doc_arrow, Doc_braces} /\ grammar = Grammar(getDefaultOperations)
    => tree = <<arrowCall(block(<<sum>>))>>

(***************************************************************************)
(* C10.  Each maximal run of n unexpected characters gives exactly one     *)
(* "Unexpected character" diagnostic, at the first character of the run    *)
(* and of length n, whatever was reported before the run; and an           *)
(* unexpected character changes the span of no other diagnostic.           *)
(***************************************************************************)
\* The 1-based places where a maximal run of @ starts.
runStarts ==
    {i \in 1..Len(source) : source[i] = "@" /\ (i = 1 \/ source[i - 1] # "@")}

runLength(i) ==
    CHOOSE n \in 1..Len(source) :
       /\ \A j \in i..(i + n - 1) : j <= Len(source) /\ source[j] = "@"
       /\ i + n > Len(source) \/ source[i + n] # "@"

\* In a document without a colon the unexpected characters are its @.
C10_OneDiagnosticPerRun ==
    done /\ (\A i \in 1..Len(source) : source[i] # ":") =>
       /\ \A i \in runStarts :
             Cardinality({j \in 1..Len(errors) :
                            /\ errors[j].message = MsgUnexpectedCharacter
                            /\ errors[j].pos.offset = i - 1
                            /\ errors[j].pos.length = runLength(i)}) = 1
       /\ Cardinality({j \in 1..Len(errors) : errors[j].message = MsgUnexpectedCharacter})
             = Cardinality(runStarts)
       /\ \A j \in 1..Len(errors) :
             errors[j].message = MsgUnexpectedComma => errors[j].pos.length = 1

(***************************************************************************)
(* C11.  Every scope that is still open when the input ends gets exactly   *)
(* one "Unterminated block" diagnostic, and the offset of each is the      *)
(* length of the document, also when the input ends in or after a comment; *)
(* { a gives one such diagnostic.                                          *)
(***************************************************************************)
isUnterminated(e) ==
    e.message \in {MsgUnterminated(")"), MsgUnterminated("}"), MsgUnterminated("]")}

closerOf(c) == CASE c = "(" -> ")" [] c = "{" -> "}" [] c = "[" -> "]"

RECURSIVE unclosed(_, _)
\* The number of brackets opened from place i on and not closed, in a document
\* of brackets and plain tokens; terms are the closers awaited, innermost last.
unclosed(i, terms) ==
    IF i > Len(source) THEN Len(terms)
    ELSE IF source[i] \in {"(", "{", "["} THEN unclosed(i + 1, Append(terms, closerOf(source[i])))
    ELSE IF terms # <<>> /\ source[i] = terms[Len(terms)]
    THEN unclosed(i + 1, SubSeq(terms, 1, Len(terms) - 1))
    ELSE unclosed(i + 1, terms)

\* Documents without strings and comments.
plain == \A i \in 1..Len(source) : source[i] \notin {"\"", "'", "$", "\\", "/"}

C11_UnterminatedAtEndOfInput ==
    /\ \A j \in 1..Len(errors) :
          isUnterminated(errors[j]) => errors[j].pos.offset = Len(source)
    /\ done /\ plain =>
          Cardinality({j \in 1..Len(errors) : isUnterminated(errors[j])}) = unclosed(1, <<>>)
    /\ done /\ source = Doc_open_block =>
          /\ result.result.kind = "root"
          /\ errors = <<Diagnostic(MsgUnterminated("}"), Position(0, 3, 1))>>

(***************************************************************************)
(* C14: the cursor after an operator resolution.                           *)
(***************************************************************************)
live(L, n) == \E k \in 1..Len(keys(L)) : keys(L)[k] = n

\* The cursor the resolution leaves is none (the pass ends) or a node of the
\* live sequence, and it is not the node of the operator that was resolved.
C14_Step ==
    OperatorResolve =>
        /\ iter' # iter
        /\ iter' = 0 \/ live(stack'[Len(stack')].tokens, iter')

\* C14: after the engine resolves an operator occurrence (prefix, infix or
\* postfix) the cursor resumes at the token that follows the removed region in
\* the live sequence, or ends the pass; it never continues on a deleted node
\* and the resolved occurrence is not processed a second time.
C14_CursorResumesOnLiveToken == [][C14_Step]_vars

(***************************************************************************)
(* C15: an operation that returns none leaves the sequence alone.          *)
(***************************************************************************)
\* The operation leaves the token sequence of the scope as it is when it returns
\* no cursor.
declinesCleanly(op) ==
    LET o == invoke(op, tokens, iter) IN o.ret = 0 => o.tokens = tokens

\* The grammars with a postfix operator, where a resolution leaves the cursor on
\* a deleted node, are set aside.
postfixGrammars == {Grammar(postfixOperations), Grammar(postfixOnlyOperations)}

hasPostfix == grammar \in postfixGrammars

\* C15: an operation's invoke modifies the token sequence only when it returns
\* a cursor: at every cursor position of a pass, each operation of the stage
\* that returns none leaves the sequence as it was, and when all of them return
\* none the engine advances to the next token over the unchanged sequence.
C15_StepOnDecline ==
    (OperationDispatch /\ ~hasPostfix
        /\ \A k \in 1..Len(grammar.passes[stage + 1]) :
              invoke(grammar.passes[stage + 1][k], tokens, iter).ret = 0)
    => stack' = stack /\ iter' = tokens.next[iter]

C15_DeclineLeavesSequence ==
    /\ [][C15_StepOnDecline]_vars
    /\ [](inPass /\ tokens.val[iter].kind # "operator" /\ ~hasPostfix =>
            \A k \in 1..Len(grammar.passes[stage + 1]) :
                declinesCleanly(grammar.passes[stage + 1][k]))

(***************************************************************************)
(* C16: what BlockBinding binds.                                           *)
(***************************************************************************)
\* The k-th operation of the pass is reached with the sequence as the state holds
\* it: the operations before it have returned none and changed nothing.
reached(pass, k) == \A j \in 1..(k - 1) : invoke(pass[j], tokens, iter) = Outcome(tokens, 0)

\* The token after the cursor is a block, or the arrow followed by a node.
blockFollows ==
    LET n == tokens.next[iter] IN
    /\ n # 0
    /\ \/ tokens.val[n].kind = "block"
       \/ /\ tokens.val[n].kind = "operator"
          /\ tokens.val[n].token = Str(ARROW_OPERATOR.token)
          /\ tokens.next[n] # 0

\* C16: BlockBinding binds (changes the sequence) only when the token after the
\* cursor is a block node or the arrow operator token followed by a node; no
\* other unresolved operator token is consumed by it.
C16_BlockBindingOnlyArrow ==
    inPass /\ tokens.val[iter].kind # "operator" /\ live(tokens, iter) =>
        \A k \in 1..Len(grammar.passes[stage + 1]) :
            LET op == grammar.passes[stage + 1][k] IN
            (op.type = "BlockBinding" /\ reached(grammar.passes[stage + 1], k)
                /\ invoke(op, tokens, iter).tokens # tokens) => blockFollows

(***************************************************************************)
(* C17: infix operators of one stage associate to the left.                *)
(***************************************************************************)
\* The infix resolution of a step leaves, right before the cursor, the node it
\* emitted: the left neighbour of the next operator of the pass.
C17_Step ==
    (OperatorResolve /\ ~hasPostfix /\ fixity(tokens, iter) = "infix" /\ iter' # 0) =>
        LET L == stack'[Len(stack')].tokens
            r == resolving(grammar, tokens, iter, stage) IN
        /\ L.prev[iter'] # 0
        /\ L.val[L.prev[iter']].kind = "invocation"
        /\ L.val[L.prev[iter']].target.name = r.emit

C17_Documents ==
    /\ parsed(getArithmeticOperators, Doc_1_sub_2_sub_3) =>
          /\ tree = <<call("sub", <<call("sub", <<num(1), num(2)>>), num(3)>>)>>
          /\ errors = <<>>
    /\ parsed(getArithmeticOperators, Doc_a_sub_b_add_c) =>
          /\ tree = <<call("add", <<call("sub", <<ident("a"), ident("b")>>), ident("c")>>)>>
          /\ errors = <<>>
    /\ \A o \in InfixTokens, p \in InfixTokens :
          (early(o) = early(p)
             /\ parsed(getArithmeticOperators, <<"a">> \o o \o <<"1">> \o p \o <<"a">>)) =>
             /\ tree = <<call(emitOf(p), <<call(emitOf(o), <<ident("a"), num(1)>>), ident("a")>>)>>
             /\ errors = <<>>

\* C17: infix operators declared in the same stage associate to the left: the
\* node an infix resolution emits is the left operand of the next infix operator
\* of that stage, so `1 - 2 - 3` is sub(sub(1, 2), 3) and `a - b + c` is
\* add(sub(a, b), c) under the arithmetic stages.
C17_LeftAssociative == [][C17_Step]_vars /\ []C17_Documents

C17_Witness ==
    /\ parsed(getArithmeticOperators, Doc_1_sub_2_sub_3)
    /\ tree = <<call("sub", <<call("sub", <<num(1), num(2)>>), num(3)>>)>>

(***************************************************************************)
(* C18: what KeywordBinding collects.                                      *)
(***************************************************************************)
\* A token that ends the run of arguments.
stopsRun(v) ==
    \/ v.kind \in {"block", "operator", "label_op"}
    \/ v.kind = "separator" /\ ~v.strong

RECURSIVE runOf(_)
\* The longest prefix of the siblings without a token that ends the run.
runOf(vs) ==
    IF vs = <<>> \/ stopsRun(Head(vs)) THEN <<>> ELSE <<Head(vs)>> \o runOf(Tail(vs))

RECURSIVE operandsOf(_)
operandsOf(vs) ==
    IF vs = <<>> THEN <<>>
    ELSE IF Head(vs).kind = "separator" THEN operandsOf(Tail(vs))
    ELSE <<Head(vs)>> \o operandsOf(Tail(vs))

\* The tokens of the scope before and after the cursor.
placeOf(L, n) == CHOOSE k \in 1..Len(keys(L)) : keys(L)[k] = n
before(L, n) == SubSeq(values(L), 1, placeOf(L, n) - 1)
siblings(L, n) == SubSeq(values(L), placeOf(L, n) + 1, Len(values(L)))

\* KeywordBinding at the cursor, an ident: the invocation of the ident with the
\* operands of the run in the place of the ident and the run, or nothing changed.
keywordBound ==
    LET o == invoke(KeywordBinding, tokens, iter)
        sibs == siblings(tokens, iter)
        run == runOf(sibs)
        children == operandsOf(run)
    IN IF run = <<>> \/ Head(run).kind = "separator" \/ children = <<>>
       THEN o = Outcome(tokens, 0)
       ELSE /\ o.ret # 0
            /\ o.tokens.val[o.ret] = InvocationNode(tokens.val[iter], children, Null, tokens.val[iter].pos)
            /\ values(o.tokens) =
                  before(tokens, iter) \o <<o.tokens.val[o.ret]>>
                     \o SubSeq(sibs, Len(run) + 1, Len(sibs))

\* C18: KeywordBinding on an ident produces an invocation of that ident whose
\* children are the following operands in order, up to the first block, weak
\* separator, operator or label_op, strong separators dropped; it declines and
\* changes nothing when the first sibling is a separator or nothing is
\* collected, and on every other token; `return x, y` is return(x, y).
C18_KeywordBindingCollects ==
    /\ (inPass /\ ~hasPostfix /\ live(tokens, iter)
          /\ \E k \in 1..Len(grammar.passes[stage + 1]) :
                /\ grammar.passes[stage + 1][k].type = "KeywordBinding"
                /\ reached(grammar.passes[stage + 1], k)) =>
          IF tokens.val[iter].kind = "ident" THEN keywordBound
          ELSE invoke(KeywordBinding, tokens, iter) = Outcome(tokens, 0)
    /\ parsed(getDefaultOperations, Doc_return) =>
          /\ tree = <<invoke3(ident("return"), <<ident("x"), ident("y")>>, Null)>>
          /\ errors = <<>>

C18_Witness ==
    /\ parsed(getDefaultOperations, Doc_return)
    /\ tree = <<invoke3(ident("return"), <<ident("x"), ident("y")>>, Null)>>

(***************************************************************************)
(* C19: operators without an emission rule are never resolved.             *)
(***************************************************************************)
arrowToken == [kind |-> "operator", token |-> Str(ARROW_OPERATOR.token)]

\* C19: operatorLookup holds only operators with an emission rule, so the
\* resolution step never resolves an operator whose emit is null (the
\* emission branch always has a name to emit) and an arrow token that
\* BlockBinding does not bind stays an unresolved operator.
C19_OnlyEmittingOperatorsResolve ==
    /\ \A id \in DOMAIN grammar.operatorLookup : grammar.operatorLookup[id].emit # NoEmit
    /\ inPass /\ tokens.val[iter].kind = "operator" =>
          LET r == resolving(grammar, tokens, iter, stage) IN
          /\ r # Null => r.emit # NoEmit
          /\ tokens.val[iter].token \in {Str(ARROW_OPERATOR.token), "?"} => r = Null
    /\ parsed(getDefaultOperations, Doc_bare_arrow) => tree = <<arrowToken, ident("a")>>
    /\ parsed(silentOperations, <<"a", "?", "a">>) =>
          tree = <<ident("a"), [kind |-> "operator", token |-> "?"], ident("a")>>

C19_Witness ==
    /\ parsed(getDefaultOperations, Doc_bare_arrow)
    /\ tree = <<arrowToken, ident("a")>>
    /\ \E k \in 1..Len(grammar.operatorsList) : grammar.operatorsList[k].emit = NoEmit

(***************************************************************************)
(* C20: when a comma is diagnosed.                                         *)
(***************************************************************************)
endsInStrongSeparator(L) ==
    /\ L.end # 0
    /\ L.val[L.end].kind = "separator"
    /\ L.val[L.end].strong

C20_Step ==
    ScanComma =>
        LET after == stack'[Len(stack')].tokens IN
        IF endsInStrongSeparator(tokens)
        THEN /\ Len(errors') = Len(errors) + 1
             /\ errors'[Len(errors')].message = MsgUnexpectedComma
             /\ values(after) = values(tokens)
        ELSE /\ errors' = errors
             /\ Len(values(after)) = Len(values(tokens)) + 1
             /\ endsInStrongSeparator(after)

\* C20: a comma is diagnosed as unexpected exactly when the token sequence of
\* the scope already ends in a strong separator; in every other case, a
\* sequence that ends in a weak (newline) separator included, the comma emits
\* a strong separator and no diagnostic.
C20_CommaDiagnosedOnlyAfterComma == [][C20_Step]_vars

(***************************************************************************)
(* C12: parsing carries no state from one call to the next.                *)
(***************************************************************************)
\* A later call on the document of the first call has returned.
parsedAgain == done /\ calls.count > 0 /\ calls.document = calls.first.content

C12_SameResult ==
    parsedAgain => result.result = calls.first.tree /\ errors = calls.first.errors

\* C12: two sequential parse calls on the same document with the same grammar,
\* with any other calls in between, return identical trees and identical
\* diagnostic lists, and no step of parse changes the grammar (its passes,
\* operatorLookup, definitionLookup and definedTokens).
C12_Deterministic == []C12_SameResult /\ [][grammar' = grammar]_vars

C12_Witness ==
    /\ parsedAgain
    /\ calls.count = 2
    /\ calls.document = Doc_open_block
    /\ errors # <<>>
    /\ result.result = calls.first.tree

(***************************************************************************)
(* C13: a parse call made while another call is scanning.                  *)
(***************************************************************************)
\* The nested call returns: the waiting call goes on with its own text, at the
\* index right after the defined token.
C13_Step ==
    FactoryReturns =>
        LET outer == calls.callers[Len(calls.callers)] IN
        source' = outer.string /\ index' = outer.index

\* C13: a parse call started from a definition factory while another parse is
\* in progress does not change the character index or the text the outer
\* parse continues scanning, so the outer parse returns what it returns
\* without the nested call: `N,a` is [n, a] as `T,a` is [true, a].
C13_NestedCallKeepsScanner ==
    /\ [][C13_Step]_vars
    /\ [](done /\ calls.document = Doc_nested => tree = <<ident("n"), ident("a")>>)
    /\ [](done /\ calls.document = Doc_constant => tree = <<ident("true"), ident("a")>>)

(***************************************************************************)
(* C21: what a colon becomes.                                              *)
(***************************************************************************)
\* The scanner's loop stands on a `:`.
atColon == pc = "scan" /\ ~isDone(index) /\ getCurrent(index) = ":"

C21_Step ==
    (atColon /\ steps' = steps + 1) =>
        LET after == stack'[Len(stack')].tokens IN
        /\ errors' = errors
        /\ IF tokens.end # 0 /\ tokens.val[tokens.end].kind = "ident"
           THEN /\ Len(values(after)) = Len(values(tokens))
                /\ after.val[after.end] =
                      LabelOperator(tokens.val[tokens.end].name, tokens.val[tokens.end].pos)
           ELSE /\ Len(values(after)) = Len(values(tokens)) + 1
                /\ after.val[after.end] = Separator(TRUE, pos)

\* C21: a colon whose preceding token in the scope is an ident replaces that
\* ident by a label_op with the ident's name and position; a colon anywhere
\* else, also as the first token of a scope, becomes a strong separator and
\* produces no diagnostic.
C21_ColonLabelsOrSeparates == [][C21_Step]_vars

(***************************************************************************)
(* C22: the newline that ends a line comment.                              *)
(***************************************************************************)
\* The line comment at the index ends at a newline, not at the end of input.
commentEndsLine == \E k \in (index + 2)..(Len(source) - 1) : getCurrent(k) = NL

C22_Step ==
    (ScanLineComment /\ commentEndsLine) =>
        LET after == stack'[Len(stack')].tokens IN
        /\ after.end # 0
        /\ after.val[after.end].kind = "separator"

\* C22: the newline that ends a line comment is handled by the newline rule:
\* the token sequence ends in a separator after it, so `a // c` newline `b`
\* scans to a, weak separator, b and gives the two statements a and b without
\* an "Unexpected token" diagnostic.
C22_LineCommentKeepsNewline ==
    /\ [][C22_Step]_vars
    /\ [](parsed(getDefaultOperations, Doc_line_comment) =>
             tree = <<ident("a"), ident("b")>> /\ errors = <<>>)

(***************************************************************************)
(* C23: the line of a position.                                            *)
(***************************************************************************)
\* The line of the character at an offset of the document.
lineAt(offset) ==
    lineOffset + Cardinality({i \in 1..Len(source) : i <= offset /\ source[i] = NL})

\* C23: every token of every open scope and every diagnostic stands on the
\* line that the newlines of the document before its offset give, also after
\* newlines inside comments, quoted strings and raw strings.
C23_LineCountsEveryNewline ==
    /\ \A j \in 1..Len(errors) : errors[j].pos.line = lineAt(errors[j].pos.offset)
    /\ \A d \in 1..Len(stack) :
          ~endless(stack[d].tokens) =>
             \A k \in 1..Len(values(stack[d].tokens)) :
                values(stack[d].tokens)[k].pos.line = lineAt(values(stack[d].tokens)[k].pos.offset)

(***************************************************************************)
(* C24: escapes in quoted strings.                                         *)
(***************************************************************************)
\* What an escaped character stands for in a string delimited by q.
escaped(c, q) ==
    CASE c = q -> q
      [] c = "\\" -> "\\"
      [] c = "n" -> "\n"
      [] c = "r" -> "\r"
      [] c = "t" -> "\t"
      [] OTHER -> ""

RECURSIVE decode(_, _)
\* The value of the string body that starts at index i and is delimited by q:
\* up to the first q that no backslash precedes, or to the end of the input.
decode(i, q) ==
    IF i >= Len(source) THEN ""
    ELSE LET c == source[i + 1] IN
         IF c = "\\" THEN IF i + 1 >= Len(source) THEN ""
                          ELSE escaped(source[i + 2], q) \o decode(i + 2, q)
         ELSE IF c = q THEN ""
         ELSE c \o decode(i + 1, q)

\* The quoted strings among the tokens of the open scopes.
quotedStrings ==
    {t \in UNION {{values(stack[d].tokens)[k] : k \in 1..Len(values(stack[d].tokens))} :
                    d \in {d \in 1..Len(stack) : ~endless(stack[d].tokens)}} :
        t.kind = "string" /\ ~t.fullLine}

\* C24: in a string delimited by q, backslash + q contributes q and does not
\* end the string, and backslash-backslash, n, r, t contribute backslash,
\* newline, carriage return and tab: the value of every quoted string is the
\* decoded text between its quotes.
C24_EscapesDecoded ==
    /\ \A t \in quotedStrings : t.value = decode(t.pos.offset + 1, source[t.pos.offset + 1])
    /\ parsed(getDefaultOperations, Doc_escapes) =>
          tree = <<[kind |-> "string", value |-> "\n\r\t\\\"", fullLine |-> FALSE]>>
    /\ parsed(getDefaultOperations, Doc_single_quote) =>
          tree = <<[kind |-> "string", value |-> "a'b", fullLine |-> FALSE]>>
    /\ parsed(getDefaultOperations, Doc_format_quote) =>
          tree = <<[kind |-> "format", strings |-> <<"'">>, values |-> <<>>]>>

(***************************************************************************)
(* C25: the shape of format and string nodes.                              *)
(***************************************************************************)
RECURSIVE formatsBalanced(_)
\* Every format node in the tree of n has one literal segment more than slots.
formatsBalanced(n) ==
    CASE n.kind = "format" ->
            /\ Len(n.strings) = Len(n.values) + 1
            /\ \A k \in 1..Len(n.values) :
                  \A j \in 1..Len(n.values[k]) : formatsBalanced(n.values[k][j])
      [] n.kind \in {"root", "block", "group", "tuple"} ->
            \A k \in 1..Len(n.children) : formatsBalanced(n.children[k])
      [] n.kind = "invocation" ->
            /\ formatsBalanced(n.target)
            /\ \A k \in 1..Len(n.children) : formatsBalanced(n.children[k])
            /\ n.block # Null => formatsBalanced(n.block)
      [] n.kind = "label" -> formatsBalanced(n.target)
      [] OTHER -> TRUE

\* The token that the end of a quoted string pushes: a format node for a string
\* that began with `$`, else a string node that is not a full-line string.
C25_Step ==
    StringEnd =>
        LET after == stack'[Len(stack')].tokens
            node == after.val[after.end] IN
        IF source[top.pos.offset + 1] = "$"
        THEN node.kind = "format" /\ Len(node.strings) = Len(node.values) + 1
        ELSE node.kind = "string" /\ node.fullLine = FALSE

C25_Trees ==
    /\ \A d \in 1..Len(stack) :
          ~endless(stack[d].tokens) =>
             \A k \in 1..Len(values(stack[d].tokens)) :
                formatsBalanced(values(stack[d].tokens)[k])
    /\ done => formatsBalanced(result.result)
    /\ parsed(getDefaultOperations, Doc_two_slots) =>
          tree = <<[kind |-> "format", strings |-> <<"", "", "">>,
                    values |-> << <<ident("a")>>, <<ident("b")>> >>]>>

\* C25: every format node the scanner produces has strings.length equal to
\* values.length + 1, for any number of slots, nested interpolation and input
\* that ends inside the string or a slot; a `$`-prefixed string always yields a
\* format node and an unprefixed one a string node with fullLine false.
C25_FormatBalanced == [][C25_Step]_vars /\ []C25_Trees

C25_Witness ==
    /\ parsed(getDefaultOperations, Doc_format)
    /\ Len(result.result.children) = 1
    /\ result.result.children[1].kind = "format"
    /\ Len(result.result.children[1].values) >= 1
    /\ Len(result.result.children[1].strings) = Len(result.result.children[1].values) + 1

=============================================================================
